---- MODULE Spec2Model ----
(***************************************************************************)
(* Model of record.py: the `record` decorator rewrites the syntax tree of  *)
(* a function so that a snapshot of its locals is recorded after every     *)
(* statement, and the trace is dumped before every `return`.               *)
(*                                                                         *)
(* The traced functions have the shape `def f(x, d=<default>)` where x is  *)
(* a one-element list (a mutable object) and the body is built from        *)
(*      x[0] += 1            a plain statement, mutating x in place        *)
(*      return x[0]          a return with a value                         *)
(*      return               a return without a value                      *)
(*      if x[0] % 2 == 0:    a conditional, with an optional else          *)
(*      while x[0] < 2:      a loop                                        *)
(*      for i in range(x[0]):  a loop                                      *)
(***************************************************************************)
EXTENDS Integers, Sequences, FiniteSets, TLC

\* ------------------------------------------------------------------ bounds
\* Largest number of statements (at all nesting depths) of a function body.
MaxNodes == 4
\* The argument list holds a number in 0..MaxArg.
MaxArg == 2
\* Longest sequence of top-level operations (decorations, calls) of a driver.
MaxOps == 3
\* A call is followed for at most MaxSteps statements (loops may not end).
MaxSteps == 40

\* --------------------------------------------------------------- constants
RECORD_FN_NAME == "_record_state_fn_hidden_123"
DUMP_FN_NAME == "_dump_state_fn_hidden_123"
RETVAL_NAME == "_retval_hidden_123"

\* Source text of the expressions the bodies use.
XValue == "x[0]"
IfTest == "x[0] % 2 == 0"
WhileTest == "x[0] < 2"
ForIter == "range(x[0])"
\* An absent expression: the `value` of a bare `return` is None in the tree.
NoValue == "None"

\* ------------------------------------------------------------ syntax trees
\* A statement node.  `lineno` is the node's own line (0 for every node the
\* rewrite synthesizes), `value` its expression (the test of an If or While,
\* the iterable of a For, the callee of a call), `value_lineno` the line of
\* that expression node, `arg` the numeric argument of a call.
Node(type, lineno, value, value_lineno, arg, body, orelse) ==
    [type |-> type, lineno |-> lineno, value |-> value,
     value_lineno |-> value_lineno, arg |-> arg, body |-> body, orelse |-> orelse]

AugAssign == Node("AugAssign", 0, XValue, 0, 0, <<>>, <<>>)
Return(value) == Node("Return", 0, value, 0, 0, <<>>, <<>>)
If(body, orelse) == Node("If", 0, IfTest, 0, 0, body, orelse)
While(body, orelse) == Node("While", 0, WhileTest, 0, 0, body, orelse)
For(body, orelse) == Node("For", 0, ForIter, 0, 0, body, orelse)

Leaves == {AugAssign, Return(XValue), Return(NoValue)}

RECURSIVE Stmts(_), Bodies(_)
\* The statements of exactly n nodes, not yet numbered.
Stmts(n) ==
    IF n = 1 THEN Leaves
    ELSE {If(b, <<>>) : b \in Bodies(n - 1)}
         \cup UNION {{If(b, o) : b \in Bodies(k), o \in Bodies(n - 1 - k)} : k \in 1..(n - 2)}
         \cup {While(b, <<>>) : b \in Bodies(n - 1)}
         \cup {For(b, <<>>) : b \in Bodies(n - 1)}
\* The non-empty blocks of exactly n nodes.
Bodies(n) ==
    {<<s>> : s \in Stmts(n)}
    \cup UNION {{<<s>> \o b : s \in Stmts(k), b \in Bodies(n - k)} : k \in 1..(n - 1)}

\* ast.parse: the line numbers of the statements of a block that starts at
\* `line`, one statement per line, an `else:` taking a line of its own.
RECURSIVE NumberBody(_, _), NumberStmt(_, _)
NumberStmt(s, line) ==
    LET b == NumberBody(s.body, line + 1)
        o == IF s.orelse = <<>> THEN [body |-> <<>>, next |-> b.next]
             ELSE NumberBody(s.orelse, b.next + 1)
    IN  [stmt |-> [s EXCEPT !.lineno = line,
                            !.value_lineno = IF s.value = NoValue THEN 0 ELSE line,
                            !.body = b.body, !.orelse = o.body],
         next |-> o.next]
NumberBody(body, line) ==
    IF body = <<>> THEN [body |-> <<>>, next |-> line]
    ELSE LET h == NumberStmt(Head(body), line)
             t == NumberBody(Tail(body), h.next)
         IN  [body |-> <<h.stmt>> \o t.body, next |-> t.next]

\* Line 1 is `@record`, line 2 the `def` line, the body starts on line 3.
FirstBodyLine == 3
Parse(body) == NumberBody(body, FirstBodyLine).body

\* ------------------------------------------------------------- the rewrite
_make_record_state_call_expr(lineno) ==
    Node("Expr", 0, RECORD_FN_NAME, 0, lineno, <<>>, <<>>)

_make_dump_state_call_expr ==
    Node("Expr", 0, DUMP_FN_NAME, 0, 0, <<>>, <<>>)

\* Faulty variant: the dump is called before the return's state is recorded.
DumpBeforeRecord(item) ==
    << Node("Assign", 0, item.value, item.value_lineno, 0, <<>>, <<>>),
       _make_dump_state_call_expr,
       _make_record_state_call_expr(item.lineno),
       Node("Return", 0, RETVAL_NAME, 0, 0, <<>>, <<>>) >>

\* assign = Assign(targets=[_retval], value=item.value); ret = Return(_retval)
_make_return_trace_call_exprs(item) ==
    << Node("Assign", 0, item.value, item.value_lineno, 0, <<>>, <<>>),
       _make_record_state_call_expr(item.lineno),
       _make_dump_state_call_expr,
       Node("Return", 0, RETVAL_NAME, 0, 0, <<>>, <<>>) >>

\* hasattr(item, 'body'), hasattr(item, 'orelse'): If, While and For nodes
\* have both fields, an empty list when the source has no else.
HasAttrBody(item) == item.type \in {"If", "While", "For"}
HasAttrOrelse(item) == item.type \in {"If", "While", "For"}

\* Faulty variant: the call is inserted before the statement it records.
RecordBeforeItem(item) == <<_make_record_state_call_expr(item.lineno), item>>

\* new_body.append(item); new_body.append(_make_record_state_call_expr(...))
PlainItem(item) == <<item, _make_record_state_call_expr(item.lineno)>>

RECURSIVE _fill_body_with_record(_, _, _)

\* Faulty variant: an else block is left as it is when the source has none.
NestedItemSkipEmptyOrelse(item) ==
    LET body == IF HasAttrBody(item)
                THEN _fill_body_with_record(item.body, TRUE, item.lineno)
                ELSE item.body
        orelse == IF HasAttrOrelse(item) /\ item.orelse # <<>>
                  THEN _fill_body_with_record(item.orelse, TRUE, item.lineno)
                  ELSE item.orelse
    IN  <<[item EXCEPT !.body = body, !.orelse = orelse]>>

\* Faulty variant: the else block's leading call is tagged with the line of the
\* block's first statement.
NestedItemOrelseOwnLine(item) ==
    LET body == IF HasAttrBody(item)
                THEN _fill_body_with_record(item.body, TRUE, item.lineno)
                ELSE item.body
        orelse == IF HasAttrOrelse(item)
                  THEN _fill_body_with_record(item.orelse, TRUE,
                           IF item.orelse = <<>> THEN item.lineno
                           ELSE Head(item.orelse).lineno)
                  ELSE item.orelse
    IN  <<[item EXCEPT !.body = body, !.orelse = orelse]>>

\* Faulty variant: the nested body gets no leading call.
NestedItemNoBodyPrepend(item) ==
    LET body == IF HasAttrBody(item)
                THEN _fill_body_with_record(item.body, FALSE, item.lineno)
                ELSE item.body
        orelse == IF HasAttrOrelse(item)
                  THEN _fill_body_with_record(item.orelse, TRUE, item.lineno)
                  ELSE item.orelse
    IN  <<[item EXCEPT !.body = body, !.orelse = orelse]>>

\* An item with nested blocks: both blocks are rewritten with a leading call
\* at the item's line, and no call is appended after the item.
NestedItem(item) ==
    LET body == IF HasAttrBody(item)
                THEN _fill_body_with_record(item.body, TRUE, item.lineno)
                ELSE item.body
        orelse == IF HasAttrOrelse(item)
                  THEN _fill_body_with_record(item.orelse, TRUE, item.lineno)
                  ELSE item.orelse
    IN  <<[item EXCEPT !.body = body, !.orelse = orelse]>>

RECURSIVE FillItems(_)
\* for item in original_body: ...
FillItems(original_body) ==
    IF original_body = <<>> THEN <<>>
    ELSE LET item == Head(original_body)
             new == IF item.type = "Return" THEN _make_return_trace_call_exprs(item)
                    ELSE IF HasAttrBody(item) \/ HasAttrOrelse(item) THEN NestedItem(item)
                    ELSE PlainItem(item)
         IN  new \o FillItems(Tail(original_body))

_fill_body_with_record(original_body, prepend, lineno) ==
    (IF prepend THEN <<_make_record_state_call_expr(lineno)>> ELSE <<>>)
    \o FillItems(original_body)

\* compile(): an Assign node needs a value.  The rewrite of a bare `return`
\* builds Assign(value=None), which compile() rejects with a ValueError.
RECURSIVE CompileOK(_)
CompileOK(body) ==
    \A i \in 1..Len(body) :
        /\ ~(body[i].type = "Assign" /\ body[i].value = NoValue)
        /\ CompileOK(body[i].body)
        /\ CompileOK(body[i].orelse)

\* ------------------------------------------------------------------ values
IntVal(n) == [kind |-> "int", v |-> n]
ListVal(n) == [kind |-> "list", v |-> n]
\* A reference to the caller's list object, whose content is `xobj`.
RefVal == [kind |-> "ref", v |-> 0]
NoneVal == [kind |-> "none", v |-> 0]

Bind(l, name, val) == [k \in DOMAIN l \cup {name} |-> IF k = name THEN val ELSE l[k]]

\* Faulty variant: the snapshot keeps the references of the locals.
ShallowCopy(f_locals, heap) == f_locals

\* copy.deepcopy(f_locals): every object reachable from the locals is copied.
DeepCopy(f_locals, heap) ==
    [k \in DOMAIN f_locals |->
        IF f_locals[k].kind = "ref" THEN ListVal(heap) ELSE f_locals[k]]

\* What a reader of a snapshot sees: a reference shows the object as it is now.
ViewSnapshot(snap, heap) ==
    [k \in DOMAIN snap |-> IF snap[k].kind = "ref" THEN ListVal(heap) ELSE snap[k]]
ViewData(data, heap) ==
    [i \in 1..Len(data) |-> [pos |-> data[i].pos, locals |-> ViewSnapshot(data[i].locals, heap)]]

\* ------------------------------------------------------------------- state
VARIABLES
    f,                        \* the function definition handed to record()
    arg,                      \* the number in the list every call is given
    script,                   \* the driver's remaining operations
    _blocked,                 \* record.py's recursion guard
    _record_store_hidden_123, \* the trace buffer: None until it is set
    env,                      \* the module namespace of f
    rpc,                      \* where a running record() call is
    pending,                  \* record() calls the exec of the rewritten def will make
    new_f_compiled,           \* the rewritten body, compiled
    returned,                 \* how the last record() call ended
    running,                  \* a call of f is executing
    traced,                   \* ... and it runs the rewritten body
    kont,                     \* the statements it still has to execute
    locals,                   \* its local variables
    xobj,                     \* the content of its argument list
    retval,                   \* the value it returned
    exit,                     \* "return", "end" (fell off the end) or "none"
    steps,                    \* statements executed by the call
    log,                      \* lines of the source statements it executed
    dumps,                    \* the trace files written so far
    mark,                     \* buffer and file counts when the call started
    emitted,                  \* the entries the last completed call appended
    ref                       \* outcome of the last call of the original body

vars == <<f, arg, script, _blocked, _record_store_hidden_123, env, rpc, pending,
          new_f_compiled, returned, running, traced, kont, locals, xobj, retval,
          exit, steps, log, dumps, mark, emitted, ref>>

recVars == <<_blocked, _record_store_hidden_123, env, rpc, pending, new_f_compiled, returned>>
callVars == <<running, traced, kont, locals, xobj, retval, exit, steps, log, dumps, mark, emitted, ref>>

\* ------------------------------------------------------------------ inputs
RECURSIVE Scripts(_)
Scripts(n) ==
    IF n = 0 THEN {<<>>}
    ELSE {<<>>} \cup {<<op>> \o s : op \in {"record", "call"}, s \in Scripts(n - 1)}

\* Every body of at most MaxNodes statements.
AllBodies == UNION {{Parse(b) : b \in Bodies(n)} : n \in 1..MaxNodes}

\* Bodies driven through every sequence of decorations and calls.
DrivenBodies ==
    { Parse(<<AugAssign, AugAssign>>),
      Parse(<<AugAssign, While(<<AugAssign>>, <<>>)>>),
      Parse(<<If(<<Return(XValue)>>, <<AugAssign>>), Return(XValue)>>) }

\* What the `def` line does when it is executed again by record():
\* nothing, a decoration of the unrelated function g, or an exception.
Defaults == {"none", "record_g", "raises"}

\* The unrelated function g.
GBody == Parse(<<AugAssign>>)

Frame(node) == [node |-> node, next |-> 0, stop |-> -1]
Frames(body) == [i \in 1..Len(body) |-> Frame(body[i])]

Init ==
    /\ \/ /\ f \in [body : AllBodies, default : {"none"}]
          /\ script = <<"call", "record", "call">>
       \/ /\ f \in [body : DrivenBodies, default : Defaults]
          /\ script \in Scripts(MaxOps)
    /\ arg \in 0..MaxArg
    /\ _blocked = FALSE
    /\ _record_store_hidden_123 = [set |-> FALSE, data |-> <<>>]
    /\ env = [f |-> f.body, g |-> GBody, hooks |-> FALSE]
    /\ rpc = "idle"
    /\ pending = <<>>
    /\ new_f_compiled = <<>>
    /\ returned = [fn |-> "", result |-> "", nested |-> FALSE]
    /\ running = FALSE
    /\ traced = FALSE
    /\ kont = <<>>
    /\ locals = [x |-> RefVal]
    /\ xobj = arg
    /\ retval = NoneVal
    /\ exit = "none"
    /\ steps = 0
    /\ log = <<>>
    /\ dumps = <<>>
    /\ mark = [data |-> 0, dumps |-> 0]
    /\ emitted = <<>>
    /\ ref = [valid |-> FALSE, log |-> <<>>, retval |-> NoneVal, x |-> 0, exit |-> "none"]

\* ---------------------------------------------------------------- record()
TopRecord == script # <<>> /\ Head(script) = "record" /\ rpc = "idle" /\ ~running

\* `if _blocked: return f`, at the top level.
RecordBlocked ==
    /\ TopRecord
    /\ _blocked
    /\ returned' = [fn |-> "f", result |-> "unchanged", nested |-> FALSE]
    /\ script' = Tail(script)
    /\ UNCHANGED <<f, arg, _blocked, _record_store_hidden_123, env, rpc, pending, new_f_compiled>>
    /\ UNCHANGED callVars

\* compile() raises: the exception leaves record() before line 53.
RecordCompileError ==
    /\ TopRecord
    /\ ~_blocked
    /\ ~CompileOK(_fill_body_with_record(f.body, FALSE, 0))
    /\ returned' = [fn |-> "f", result |-> "raised", nested |-> FALSE]
    /\ script' = Tail(script)
    /\ UNCHANGED <<f, arg, _blocked, _record_store_hidden_123, env, rpc, pending, new_f_compiled>>
    /\ UNCHANGED callVars

\* Lines 43-56: parse, rewrite, compile, inject the two hooks, set the guard.
RecordBegin ==
    /\ TopRecord
    /\ ~_blocked
    /\ LET new_body == _fill_body_with_record(f.body, FALSE, 0)
       IN  /\ CompileOK(new_body)
           /\ new_f_compiled' = new_body
    /\ env' = [env EXCEPT !.hooks = TRUE]
    /\ _blocked' = TRUE
    /\ rpc' = "exec"
    \* exec evaluates the defaults, builds the function, applies @record to it
    /\ pending' = (IF f.default = "record_g" THEN <<"g">> ELSE <<>>) \o <<"f">>
    /\ UNCHANGED <<f, arg, script, _record_store_hidden_123, returned>>
    /\ UNCHANGED callVars

\* record() entered from the exec of line 57: `if _blocked: return f`.
NestedRecord ==
    /\ rpc = "exec"
    /\ f.default # "raises"
    /\ pending # <<>>
    /\ _blocked
    /\ returned' = [fn |-> Head(pending), result |-> "unchanged", nested |-> TRUE]
    /\ pending' = Tail(pending)
    /\ UNCHANGED <<f, arg, script, _blocked, _record_store_hidden_123, env, rpc, new_f_compiled>>
    /\ UNCHANGED callVars

\* The exec of line 57 raises: line 58 is never reached.
ExecRaises ==
    /\ rpc = "exec"
    /\ f.default = "raises"
    /\ rpc' = "idle"
    /\ pending' = <<>>
    /\ returned' = [fn |-> "f", result |-> "raised", nested |-> FALSE]
    /\ script' = Tail(script)
    /\ UNCHANGED <<f, arg, _blocked, _record_store_hidden_123, env, new_f_compiled>>
    /\ UNCHANGED callVars

\* Lines 57-66: the exec binds the new function, the guard is cleared, the
\* store is initialised.
RecordEnd ==
    /\ rpc = "exec"
    /\ f.default # "raises"
    /\ pending = <<>>
    /\ env' = [env EXCEPT !.f = new_f_compiled]
    /\ _blocked' = FALSE
    /\ _record_store_hidden_123' = [set |-> TRUE, data |-> <<>>]
    /\ rpc' = "idle"
    /\ returned' = [fn |-> "f", result |-> "instrumented", nested |-> FALSE]
    /\ script' = Tail(script)
    /\ UNCHANGED <<f, arg, pending, new_f_compiled>>
    /\ UNCHANGED callVars

\* ----------------------------------------------------- calls of f
\* The driver calls f, which runs whatever the namespace binds to its name.
Call ==
    /\ script # <<>> /\ Head(script) = "call"
    /\ rpc = "idle" /\ ~running
    /\ running' = TRUE
    /\ traced' = (env.f # f.body)
    /\ kont' = Frames(env.f)
    /\ locals' = [x |-> RefVal]
    /\ xobj' = arg
    /\ retval' = NoneVal
    /\ exit' = "none"
    /\ steps' = 0
    /\ log' = <<>>
    /\ mark' = [data |-> Len(_record_store_hidden_123.data), dumps |-> Len(dumps)]
    /\ emitted' = <<>>
    /\ UNCHANGED <<f, arg, script, dumps, ref>>
    /\ UNCHANGED recVars

Stepping == running /\ kont # <<>> /\ steps < MaxSteps
Top == Head(kont).node

\* The source line a node executes: its own, or that of the source expression
\* it evaluates (synthesized nodes are on line 0).
SourceLine(node) == IF node.lineno # 0 THEN node.lineno ELSE node.value_lineno
Logged(node) == IF SourceLine(node) # 0 THEN Append(log, SourceLine(node)) ELSE log

Eval(expr) ==
    IF expr = XValue THEN IntVal(xobj)
    ELSE IF expr = RETVAL_NAME THEN locals[RETVAL_NAME]
    ELSE NoneVal
Test(expr) == IF expr = IfTest THEN xobj % 2 = 0 ELSE xobj < 2

\* The call is over: the driver goes on, and the outcome of a call of the
\* original body is kept for comparison.
Finish(how, value, executed) ==
    /\ running' = FALSE
    /\ kont' = <<>>
    /\ exit' = how
    /\ retval' = value
    /\ log' = executed
    /\ script' = Tail(script)
    /\ emitted' = SubSeq(_record_store_hidden_123.data, mark.data + 1,
                         Len(_record_store_hidden_123.data))
    /\ ref' = IF traced THEN ref
              ELSE [valid |-> TRUE, log |-> executed, retval |-> value, x |-> xobj, exit |-> how]

\* x[0] += 1
ExecAugAssign ==
    /\ Stepping /\ Top.type = "AugAssign"
    /\ xobj' = xobj + 1
    /\ kont' = Tail(kont)
    /\ log' = Logged(Top)
    /\ steps' = steps + 1
    /\ UNCHANGED <<f, arg, script, running, traced, locals, retval, exit, dumps, mark, emitted, ref>>
    /\ UNCHANGED recVars

\* _retval_hidden_123 = <value>
ExecAssign ==
    /\ Stepping /\ Top.type = "Assign"
    /\ locals' = Bind(locals, RETVAL_NAME, Eval(Top.value))
    /\ kont' = Tail(kont)
    /\ log' = Logged(Top)
    /\ steps' = steps + 1
    /\ UNCHANGED <<f, arg, script, running, traced, xobj, retval, exit, dumps, mark, emitted, ref>>
    /\ UNCHANGED recVars

ExecIf ==
    /\ Stepping /\ Top.type = "If"
    /\ kont' = Frames(IF Test(Top.value) THEN Top.body ELSE Top.orelse) \o Tail(kont)
    /\ log' = Logged(Top)
    /\ steps' = steps + 1
    /\ UNCHANGED <<f, arg, script, running, traced, locals, xobj, retval, exit, dumps, mark, emitted, ref>>
    /\ UNCHANGED recVars

\* The test is evaluated before every iteration; the else block runs when it
\* is false.
ExecWhile ==
    /\ Stepping /\ Top.type = "While"
    /\ kont' = IF Test(Top.value)
               THEN Frames(Top.body) \o kont
               ELSE Frames(Top.orelse) \o Tail(kont)
    /\ log' = Logged(Top)
    /\ steps' = steps + 1
    /\ UNCHANGED <<f, arg, script, running, traced, locals, xobj, retval, exit, dumps, mark, emitted, ref>>
    /\ UNCHANGED recVars

\* range(x[0]) is evaluated once, when the loop is entered; the else block
\* runs when the iterator is exhausted.
ExecFor ==
    /\ Stepping /\ Top.type = "For"
    /\ LET fr == Head(kont)
           stop == IF fr.stop = -1 THEN xobj ELSE fr.stop
       IN  IF fr.next < stop
           THEN /\ locals' = Bind(locals, "i", IntVal(fr.next))
                /\ kont' = Frames(Top.body)
                           \o <<[fr EXCEPT !.next = fr.next + 1, !.stop = stop]>>
                           \o Tail(kont)
           ELSE /\ locals' = locals
                /\ kont' = Frames(Top.orelse) \o Tail(kont)
    /\ log' = Logged(Top)
    /\ steps' = steps + 1
    /\ UNCHANGED <<f, arg, script, running, traced, xobj, retval, exit, dumps, mark, emitted, ref>>
    /\ UNCHANGED recVars

ExecReturn ==
    /\ Stepping /\ Top.type = "Return"
    /\ Finish("return", Eval(Top.value), Logged(Top))
    /\ steps' = steps + 1
    /\ UNCHANGED <<f, arg, traced, locals, xobj, dumps, mark>>
    /\ UNCHANGED recVars

\* _record_store_hidden_123['data'].append((lineno, copy.deepcopy(f_locals)))
RecordState(store, lineno, snapshot) ==
    [store EXCEPT !.data = Append(@, [pos |-> lineno, locals |-> snapshot])]

\* _record_state_fn_hidden_123(<lineno>, locals())
ExecRecordCall ==
    /\ Stepping /\ Top.type = "Expr" /\ Top.value = RECORD_FN_NAME
    /\ env.hooks /\ _record_store_hidden_123.set
    /\ _record_store_hidden_123' =
           RecordState(_record_store_hidden_123, Top.arg, DeepCopy(locals, xobj))
    /\ kont' = Tail(kont)
    /\ steps' = steps + 1
    /\ UNCHANGED <<f, arg, script, running, traced, locals, xobj, retval, exit, log, dumps, mark, emitted, ref>>
    /\ UNCHANGED <<_blocked, env, rpc, pending, new_f_compiled, returned>>

\* json.dump(_record_store_hidden_123, handle): the file holds the store as
\* it reads when it is written.
Serialized(store, heap) == ViewData(store.data, heap)

\* _dump_state_fn_hidden_123()
ExecDumpCall ==
    /\ Stepping /\ Top.type = "Expr" /\ Top.value = DUMP_FN_NAME
    /\ env.hooks /\ _record_store_hidden_123.set
    /\ dumps' = Append(dumps, Serialized(_record_store_hidden_123, xobj))
    /\ kont' = Tail(kont)
    /\ steps' = steps + 1
    /\ UNCHANGED <<f, arg, script, running, traced, locals, xobj, retval, exit, log, mark, emitted, ref>>
    /\ UNCHANGED recVars

\* The body ends without a return statement: the call returns None.
FallOffEnd ==
    /\ running /\ kont = <<>>
    /\ Finish("end", NoneVal, log)
    /\ UNCHANGED <<f, arg, traced, locals, xobj, steps, dumps, mark>>
    /\ UNCHANGED recVars

Next ==
    \/ RecordBlocked
    \/ RecordCompileError
    \/ RecordBegin
    \/ NestedRecord
    \/ ExecRaises
    \/ RecordEnd
    \/ Call
    \/ ExecAugAssign
    \/ ExecAssign
    \/ ExecIf
    \/ ExecWhile
    \/ ExecFor
    \/ ExecReturn
    \/ ExecRecordCall
    \/ ExecDumpCall
    \/ FallOffEnd

Spec == Init /\ [][Next]_vars

\* -------------------------------------------------------------- properties
Count(seq, v) == Cardinality({i \in 1..Len(seq) : seq[i] = v})
Lines(body) == [i \in 1..Len(body) |-> body[i].lineno]
Positions(entries) == [i \in 1..Len(entries) |-> entries[i].pos]
RECURSIVE Repeat(_, _)
Repeat(seq, n) == IF n = 0 THEN <<>> ELSE seq \o Repeat(seq, n - 1)
Prefix(body) == SubSeq(body, 1, Len(body) - 1)
LastStmt(body) == body[Len(body)]

PlainBody(body) == \A i \in 1..Len(body) : body[i].type = "AugAssign"
IsLoop(s) == s.type \in {"While", "For"}

\* A call has run to completion, on the rewritten body or on the original.
Completed == ~running /\ exit # "none"
CompletedTraced == Completed /\ traced
\* The files the call wrote.
Flushes == Len(dumps) - mark.dumps

\* C1: every call of an instrumented function that runs to completion calls
\* the dump operation exactly once, whether it leaves through a return
\* statement or falls off the end of its body.
C1_FlushOnEveryExit == CompletedTraced => Flushes = 1

\* C2: a body of k plain statements emits k entries, the i-th tagged with the
\* line of the i-th statement and holding the locals as they are after that
\* statement has executed.
C2_PlainEntries ==
    (CompletedTraced /\ PlainBody(f.body)) =>
        /\ Len(emitted) = Len(f.body)
        /\ \A i \in 1..Len(emitted) :
              /\ emitted[i].pos = f.body[i].lineno
              /\ emitted[i].locals = [x |-> ListVal(arg + i)]
C2_Witness == CompletedTraced /\ PlainBody(f.body) /\ Len(f.body) >= 2

\* Plain statements followed by an if/else whose two blocks are plain.
IsIfElse(body) ==
    /\ PlainBody(Prefix(body))
    /\ LastStmt(body).type = "If"
    /\ LastStmt(body).orelse # <<>>
    /\ PlainBody(LastStmt(body).body)
    /\ PlainBody(LastStmt(body).orelse)
\* The test of the conditional holds when it is reached.
IfTaken(body) == (arg + Len(body) - 1) % 2 = 0

\* C3: an if/else emits one entry at the `if` line, then one entry per
\* statement of the block that was taken, at that statement's line; the
\* alternative's leading entry carries the `if` line too, and nothing of the
\* other block is emitted.
C3_IfElseEntries ==
    (CompletedTraced /\ IsIfElse(f.body)) =>
        Positions(emitted) =
            Lines(Prefix(f.body)) \o <<LastStmt(f.body).lineno>>
            \o Lines(IF IfTaken(f.body) THEN LastStmt(f.body).body
                     ELSE LastStmt(f.body).orelse)
C3_Witness == CompletedTraced /\ IsIfElse(f.body) /\ ~IfTaken(f.body)

\* The top-level loops without else whose body is plain and that the
\* completed call executed.
ExecutedPlainLoops ==
    {j \in 1..Len(f.body) :
        /\ IsLoop(f.body[j]) /\ f.body[j].orelse = <<>> /\ PlainBody(f.body[j].body)
        /\ Count(log, f.body[j].lineno) > 0}
\* Its iterations: the loop line is evaluated once more than the body runs.
Iterations(loop) == Count(log, loop.lineno) - 1
LoopLines(loop) == {loop.lineno} \cup {loop.body[i].lineno : i \in 1..Len(loop.body)}
LoopEntries(loop) == SelectSeq(emitted, LAMBDA e : e.pos \in LoopLines(loop))

\* C4 as stated: a loop of n iterations over k plain statements contributes
\* n*(k+1) entries, none at the loop's line after the last iteration.
C4_LoopEntriesAsStated ==
    CompletedTraced =>
        \A j \in ExecutedPlainLoops :
            Len(LoopEntries(f.body[j])) = Iterations(f.body[j]) * (Len(f.body[j].body) + 1)

\* C4 amended: the loop contributes n*(k+1)+1 entries: per iteration one at
\* the loop's line and k for the body, and one more at the loop's line when
\* the loop ends.
C4_LoopEntries ==
    CompletedTraced =>
        \A j \in ExecutedPlainLoops :
            LET loop == f.body[j]
                n == Iterations(loop)
                k == Len(loop.body)
            IN  /\ Len(LoopEntries(loop)) = n * (k + 1) + 1
                /\ Count(Positions(emitted), loop.lineno) = n + 1
                /\ \A i \in 1..k : Count(Positions(emitted), loop.body[i].lineno) = n
                /\ LoopEntries(loop)[n * (k + 1) + 1].pos = loop.lineno
C4_Witness ==
    /\ CompletedTraced
    /\ \E j \in ExecutedPlainLoops :
          Iterations(f.body[j]) >= 2 /\ Len(f.body[j].body) >= 2

\* Plain statements followed by a loop without else.
EndsInLoop(body) ==
    /\ PlainBody(Prefix(body))
    /\ IsLoop(LastStmt(body))
    /\ LastStmt(body).orelse = <<>>
\* A block made of one conditional whose blocks are plain.
IsPlainIf(body) ==
    /\ Len(body) = 1
    /\ body[1].type = "If"
    /\ PlainBody(body[1].body)
    /\ PlainBody(body[1].orelse)

\* C5: a loop of n iterations over plain statements that ends normally emits
\* (loop line, body lines) n times and then one entry at the loop line; with
\* a conditional in the loop body each iteration emits the loop line, the
\* `if` line and the lines of the statements of the branch taken, which are
\* the lines the call executed, in the order it executed them.
C5_LoopPositions ==
    (CompletedTraced /\ EndsInLoop(f.body)) =>
        LET loop == LastStmt(f.body)
            n == Iterations(loop)
        IN  /\ PlainBody(loop.body) =>
                  Positions(emitted) =
                      Lines(Prefix(f.body))
                      \o Repeat(<<loop.lineno>> \o Lines(loop.body), n)
                      \o <<loop.lineno>>
            /\ IsPlainIf(loop.body) =>
                  /\ Positions(emitted) = log
                  /\ Count(log, loop.body[1].lineno) = n
                  /\ \A i \in 1..Len(log) :
                        log[i] = loop.body[1].lineno => log[i - 1] = loop.lineno
                  /\ log[Len(log)] = loop.lineno
C5_Witness ==
    /\ CompletedTraced /\ EndsInLoop(f.body)
    /\ IsPlainIf(LastStmt(f.body).body)
    /\ Iterations(LastStmt(f.body)) >= 2
    /\ Len(emitted) > 2 * Iterations(LastStmt(f.body)) + 1

\* C6: when a call leaves through a return statement, its last entry is
\* tagged with the line of that return and binds the temporary to the value
\* returned; the flush follows that entry, happens once, and nothing is
\* emitted after it.
C6_ReturnEntry ==
    (CompletedTraced /\ exit = "return") =>
        /\ emitted # <<>>
        /\ emitted[Len(emitted)].pos = log[Len(log)]
        /\ RETVAL_NAME \in DOMAIN emitted[Len(emitted)].locals
        /\ emitted[Len(emitted)].locals[RETVAL_NAME] = retval
        /\ Flushes = 1
        /\ LET file == dumps[Len(dumps)]
           IN  /\ Len(file) = mark.data + Len(emitted)
               /\ file[Len(file)] = emitted[Len(emitted)]
C6_Witness ==
    /\ CompletedTraced /\ exit = "return"
    /\ IsLoop(f.body[1])
    /\ f.body[1].body[1].type = "If"
    /\ f.body[1].body[1].body[1].type = "Return"
    /\ log[Len(log)] = f.body[1].body[1].body[1].lineno

\* The completed call of the rewritten body did what the original body does
\* on the same argument.
SameBehaviour ==
    (CompletedTraced /\ ref.valid) =>
        /\ log = ref.log
        /\ retval = ref.retval
        /\ exit = ref.exit
        /\ xobj = ref.x

\* C7: for every function of the supported subset, returns without a value
\* included, the decoration yields an instrumented definition, which executes
\* the original statements in the original order and returns the same value.
C7_Equivalent ==
    /\ (f.default = "none" /\ returned.fn = "f" /\ ~returned.nested) =>
           returned.result = "instrumented"
    /\ SameBehaviour

\* C8: while no decoration runs the buffer only grows, by one entry at the
\* end per emit, earlier entries reading as they did; a flush leaves it as it
\* is and writes all of it, entries of earlier calls included; a new call
\* does not reset it.
C8_BufferAppendOnly ==
    [][(rpc = "idle" /\ rpc' = "idle") =>
        LET old == ViewData(_record_store_hidden_123.data, xobj)
            new == ViewData(_record_store_hidden_123'.data, xobj')
        IN  /\ Len(new) \in {Len(old), Len(old) + 1}
            /\ SubSeq(new, 1, Len(old)) = old
            /\ _record_store_hidden_123'.set = _record_store_hidden_123.set
            /\ dumps' # dumps =>
                  /\ new = old
                  /\ dumps' = Append(dumps, new)]_vars
C8_Witness ==
    /\ running /\ traced
    /\ mark.data > 0
    /\ Flushes = 1
    /\ Len(dumps[Len(dumps)]) > mark.data
    /\ Len(_record_store_hidden_123.data) > mark.data

\* C9: a record() call made while a decoration is in progress returns its
\* input unchanged only when it is the re-application to the definition being
\* instrumented; the decoration of another function is still carried out.
C9_NestedDecoration ==
    returned.nested =>
        IF returned.fn = "f" THEN returned.result = "unchanged"
        ELSE returned.result = "instrumented"

\* C10: the guard is clear whenever no record() call is executing, however
\* the last one ended.
C10_GuardClear == rpc = "idle" => ~_blocked
====
